---- MODULE Spec2Model ----
(***************************************************************************)
(* Model of the codex-go client: the Codex struct (codex.go), Login        *)
(* (login.go) and the invoke options plus Invoke.  Goroutines              *)
(* calling Login and Invoke on one shared *Codex are the threads, each     *)
(* making one call; every blocking point of the code (Lock, cmd.Run,       *)
(* Connect, CallTool, the deferred Close/Unlock) is a separate step.       *)
(***************************************************************************)
EXTENDS Integers, Sequences, FiniteSets, TLC

\* ---------------------------------------------------------------- bounds
NumLogin == 2        \* goroutines calling Login
NumInvoke == 2       \* goroutines calling Invoke
MaxOpts == 2         \* longest option list passed to Invoke
MaxContent == 2      \* longest Content list of a tool-call response

LoginThreads == 1..NumLogin
InvokeThreads == (NumLogin + 1)..(NumLogin + NumInvoke)
Threads == LoginThreads \cup InvokeThreads
FirstLogin == 1
FirstInvoke == NumLogin + 1

\* ------------------------------------------------------- Go values
\* A nil pointer / nil interface / nil map is <<>>, a non-nil one is <<v>>.
Nil == <<>>
Ptr(v) == <<v>>
Deref(p) == p[1]

\* strings.Contains
Contains(s, sub) ==
    \E i \in 1..(Len(s) + 1) :
        /\ i + Len(sub) - 1 <= Len(s)
        /\ SubSeq(s, i, i + Len(sub) - 1) = sub

\* os.Environ() of the calling process
Environ == <<"PATH=/usr/bin", "RUST_LOG=warn">>

\* ------------------------------------------------------- codex.go
ValidLogLevels == {"error", "warn", "info", "debug", "trace", "off"}

RustLog(level) == "RUST_LOG=codex_core=" \o level \o ",codex_tui=" \o level

\* exec.CommandContext(ctx, codex.executablePath, arg...)
CommandContext(arg) ==
    [Args |-> arg, Stderr |-> Nil, Env |-> Nil, Dir |-> "", started |-> FALSE]

\* Mutant: command() wiring the logger without validating the level.
commandNoLevelCheck(w, level, arg) ==
    IF w # Nil
    THEN [cmd |-> Ptr([CommandContext(arg) EXCEPT
                          !.Stderr = w,
                          !.Env = <<RustLog(level)>> \o Environ]),
          err |-> Nil]
    ELSE [cmd |-> Ptr(CommandContext(arg)), err |-> Nil]

\* (codex *Codex) command: the *exec.Cmd and the error it returns, given the
\* client's logWriter and logLevel.
command(w, level, arg) ==
    IF w # Nil
    THEN IF level \in ValidLogLevels
         THEN [cmd |-> Ptr([CommandContext(arg) EXCEPT
                               !.Stderr = w,
                               !.Env = <<RustLog(level)>> \o Environ]),
               err |-> Nil]
         ELSE [cmd |-> Nil, err |-> Ptr("invalid log level")]
    ELSE [cmd |-> Ptr(CommandContext(arg)), err |-> Nil]

\* ------------------------------------------------------- invoke options
ApprovalPolicies == {"untrusted", "on-failure", "never"}
Sandboxes == {"read-only", "workspace-write", "danger-full-access"}

\* invokeOptions{}: every field nil
invokeOptions ==
    [ApprovalPolicy |-> Nil, BaseInstructions |-> Nil, Config |-> Nil,
     Cwd |-> Nil, IncludePlanTool |-> Nil, Model |-> Nil, Profile |-> Nil,
     Sandbox |-> Nil]

\* An InvokeOption value: the constructor that made it and its argument
\* (str for string arguments, flag for the bool, cfg for the map).
Opt(fn, str, flag, cfg) == [fn |-> fn, str |-> str, flag |-> flag, cfg |-> cfg]

\* Each With* below is the closure the constructor returns, applied to o: the
\* options after the call and the error returned.
\* Mutant: the approval policy is stored without being validated.
WithApprovalPolicyNoCheck(approvalPolicy, o) ==
    [opts |-> [o EXCEPT !.ApprovalPolicy = Ptr(approvalPolicy)], err |-> Nil]

\* Mutant: the approval policy is stored first and validated afterwards.
WithApprovalPolicyStoreFirst(approvalPolicy, o) ==
    IF approvalPolicy \in {"untrusted", "on-failure", "never"}
    THEN [opts |-> [o EXCEPT !.ApprovalPolicy = Ptr(approvalPolicy)], err |-> Nil]
    ELSE [opts |-> [o EXCEPT !.ApprovalPolicy = Ptr(approvalPolicy)],
          err |-> Ptr("invalid approval-policy: " \o approvalPolicy)]

WithApprovalPolicy(approvalPolicy, o) ==
    IF approvalPolicy \in ApprovalPolicies
    THEN [opts |-> [o EXCEPT !.ApprovalPolicy = Ptr(approvalPolicy)], err |-> Nil]
    ELSE [opts |-> o, err |-> Ptr("invalid approval-policy: " \o approvalPolicy)]

WithBaseInstructions(baseInstructions, o) ==
    [opts |-> [o EXCEPT !.BaseInstructions = Ptr(baseInstructions)], err |-> Nil]

WithConfig(config, o) ==
    [opts |-> [o EXCEPT !.Config = config], err |-> Nil]

WithCwd(cwd, o) ==
    [opts |-> [o EXCEPT !.Cwd = Ptr(cwd)], err |-> Nil]

WithIncludePlanTool(includePlanTool, o) ==
    [opts |-> [o EXCEPT !.IncludePlanTool = Ptr(includePlanTool)], err |-> Nil]

WithModel(model, o) ==
    [opts |-> [o EXCEPT !.Model = Ptr(model)], err |-> Nil]

WithProfile(profile, o) ==
    [opts |-> [o EXCEPT !.Profile = Ptr(profile)], err |-> Nil]

\* Mutant: the sandbox is stored without being validated.
WithSandboxNoCheck(sandbox, o) ==
    [opts |-> [o EXCEPT !.Sandbox = Ptr(sandbox)], err |-> Nil]

WithSandbox(sandbox, o) ==
    IF sandbox \in Sandboxes
    THEN [opts |-> [o EXCEPT !.Sandbox = Ptr(sandbox)], err |-> Nil]
    ELSE [opts |-> o, err |-> Ptr("invalid sandbox: " \o sandbox)]

\* opt(&opts)
ApplyOption(opt, o) ==
    CASE opt.fn = "WithApprovalPolicy" -> WithApprovalPolicy(opt.str, o)
      [] opt.fn = "WithBaseInstructions" -> WithBaseInstructions(opt.str, o)
      [] opt.fn = "WithConfig" -> WithConfig(opt.cfg, o)
      [] opt.fn = "WithCwd" -> WithCwd(opt.str, o)
      [] opt.fn = "WithIncludePlanTool" -> WithIncludePlanTool(opt.flag, o)
      [] opt.fn = "WithModel" -> WithModel(opt.str, o)
      [] opt.fn = "WithProfile" -> WithProfile(opt.str, o)
      [] opt.fn = "WithSandbox" -> WithSandbox(opt.str, o)

\* The arguments map Invoke builds from prompt and opts (Invoke, lines 129-159).
Put(m, k, v) == (k :> v) @@ m

\* Mutant: cwd is sent as an argument too.
ArgumentsWithCwd(prompt, o) ==
    LET a0 == [prompt |-> prompt]
        a1 == IF o.ApprovalPolicy # Nil
              THEN Put(a0, "approval-policy", Deref(o.ApprovalPolicy)) ELSE a0
        a2 == IF o.BaseInstructions # Nil
              THEN Put(a1, "base-instructions", Deref(o.BaseInstructions)) ELSE a1
        a3 == IF o.Config # Nil
              THEN Put(a2, "config", Deref(o.Config)) ELSE a2
        a4 == IF o.IncludePlanTool # Nil
              THEN Put(a3, "include-plan-tool", Deref(o.IncludePlanTool)) ELSE a3
        a5 == IF o.Model # Nil
              THEN Put(a4, "model", Deref(o.Model)) ELSE a4
        a6 == IF o.Profile # Nil
              THEN Put(a5, "profile", Deref(o.Profile)) ELSE a5
        a7 == IF o.Sandbox # Nil
              THEN Put(a6, "sandbox", Deref(o.Sandbox)) ELSE a6
        a8 == IF o.Cwd # Nil
              THEN Put(a7, "cwd", Deref(o.Cwd)) ELSE a7
    IN a8

Arguments(prompt, o) ==
    LET a0 == [prompt |-> prompt]
        a1 == IF o.ApprovalPolicy # Nil
              THEN Put(a0, "approval-policy", Deref(o.ApprovalPolicy)) ELSE a0
        a2 == IF o.BaseInstructions # Nil
              THEN Put(a1, "base-instructions", Deref(o.BaseInstructions)) ELSE a1
        a3 == IF o.Config # Nil
              THEN Put(a2, "config", Deref(o.Config)) ELSE a2
        a4 == IF o.IncludePlanTool # Nil
              THEN Put(a3, "include-plan-tool", Deref(o.IncludePlanTool)) ELSE a3
        a5 == IF o.Model # Nil
              THEN Put(a4, "model", Deref(o.Model)) ELSE a4
        a6 == IF o.Profile # Nil
              THEN Put(a5, "profile", Deref(o.Profile)) ELSE a5
        a7 == IF o.Sandbox # Nil
              THEN Put(a6, "sandbox", Deref(o.Sandbox)) ELSE a6
    IN a7

\* What Invoke returns (or panics with) for a tool-call response
\* (Invoke, lines 170-175).
NoRet == [text |-> "", err |-> Nil, panic |-> ""]

\* Mutant: the text is taken from the last content entry.
ResultLast(res) ==
    IF Len(res.Content) = 0
    THEN [NoRet EXCEPT !.panic = "index out of range [0] with length 0"]
    ELSE IF res.Content[Len(res.Content)].type # "text"
    THEN [NoRet EXCEPT !.panic = "interface conversion: not *mcp.TextContent"]
    ELSE LET text == res.Content[Len(res.Content)].Text
         IN IF res.IsError
            THEN [NoRet EXCEPT !.err = Ptr(text)]
            ELSE [NoRet EXCEPT !.text = text]

Result(res) ==
    IF Len(res.Content) = 0
    THEN [NoRet EXCEPT !.panic = "index out of range [0] with length 0"]
    ELSE IF res.Content[1].type # "text"
    THEN [NoRet EXCEPT !.panic = "interface conversion: not *mcp.TextContent"]
    ELSE LET text == res.Content[1].Text
         IN IF res.IsError
            THEN [NoRet EXCEPT !.err = Ptr(text)]
            ELSE [NoRet EXCEPT !.text = text]

\* ------------------------------------------------------- inputs
ApiKey == "sk-test"
Prompt == "hello"

Writers == {Nil, Ptr("stderr")}
InvalidLogLevels == {"verbose", ""}
LogLevels == ValidLogLevels \cup InvalidLogLevels
FewLogLevels == {"info", "verbose"}

NilConfig == Nil
Configs == {NilConfig, Ptr({}), Ptr({<<"model_reasoning_effort", "high">>})}

Options ==
    {Opt("WithApprovalPolicy", v, FALSE, Nil) : v \in ApprovalPolicies \cup {"always", ""}}
    \cup {Opt("WithSandbox", v, FALSE, Nil) : v \in Sandboxes \cup {"none"}}
    \cup {Opt("WithBaseInstructions", "be brief", FALSE, Nil)}
    \cup {Opt("WithConfig", "", FALSE, c) : c \in Configs}
    \cup {Opt("WithCwd", "/work", FALSE, Nil)}
    \cup {Opt("WithIncludePlanTool", "", b, Nil) : b \in BOOLEAN}
    \cup {Opt("WithModel", "o3", FALSE, Nil)}
    \cup {Opt("WithProfile", "dev", FALSE, Nil)}

SeqsUpTo(S, n) == UNION {[1..k -> S] : k \in 0..n}

OptionLists == SeqsUpTo(Options, MaxOpts)
FewOptionLists ==
    {<<>>,
     <<Opt("WithCwd", "/work", FALSE, Nil), Opt("WithSandbox", "none", FALSE, Nil)>>,
     <<Opt("WithApprovalPolicy", "always", FALSE, Nil)>>}

RaceOptionLists == {<<Opt("WithCwd", "/work", FALSE, Nil)>>}

TextContent(text) == [type |-> "text", Text |-> text]
ImageContent == [type |-> "image", Text |-> ""]
Contents == {TextContent("ok"), TextContent("boom"), ImageContent}
Responses == [IsError : BOOLEAN, Content : SeqsUpTo(Contents, MaxContent)]
FewResponses ==
    {[IsError |-> FALSE, Content |-> <<TextContent("ok")>>],
     [IsError |-> TRUE, Content |-> <<TextContent("boom")>>],
     [IsError |-> FALSE, Content |-> <<>>]}

RaceResponses == {[IsError |-> FALSE, Content |-> <<TextContent("ok")>>]}

\* ------------------------------------------------------- state
VARIABLES
    authMutex,   \* codex.authMutex: TRUE while locked
    logWriter,   \* codex.logWriter
    logLevel,    \* codex.logLevel
    pc,          \* where each goroutine is in its Login or Invoke call
    cmd,         \* the call's *exec.Cmd (Nil until command() returned one)
    ret,         \* what the call returned (or the panic it raised)
    in,          \* Invoke's parameters: prompt and options
    idx,         \* Invoke: position of the option loop in options
    opts,        \* Invoke: the invokeOptions being built
    session,     \* Invoke: the mcp session: state, number of Close calls,
                 \*         the CallTool requests it received
    res          \* Invoke: the *mcp.CallToolResult (Nil until received)

vars == <<authMutex, logWriter, logLevel, pc, cmd, ret, in, idx, opts, session, res>>

clientVars == <<logWriter, logLevel>>
invokeVars == <<in, idx, opts, session, res>>

NoSession == [state |-> "none", closes |-> 0, calls |-> <<>>]

\* New(): executablePath "codex", logWriter nil, logLevel "info"
Init ==
    /\ authMutex = FALSE
    /\ logWriter = Nil
    /\ logLevel = "info"
    /\ pc = [t \in Threads |-> "idle"]
    /\ cmd = [t \in Threads |-> Nil]
    /\ ret = [t \in Threads |-> NoRet]
    /\ in = [t \in InvokeThreads |-> [prompt |-> "", options |-> <<>>]]
    /\ idx = [t \in InvokeThreads |-> 1]
    /\ opts = [t \in InvokeThreads |-> invokeOptions]
    /\ session = [t \in InvokeThreads |-> NoSession]
    /\ res = [t \in InvokeThreads |-> Nil]

\* ------------------------------------------------------- codex.go actions
\* (codex *Codex) SetLogger(w, level); also New(WithLogger(w, level))
SetLogger(levels) ==
    \E w \in Writers, level \in levels :
        /\ logWriter' = w
        /\ logLevel' = level
        /\ UNCHANGED <<authMutex, pc, cmd, ret, invokeVars>>

\* ------------------------------------------------------- login.go actions
\* A goroutine calls codex.Login(ctx, apiKey) and reaches authMutex.Lock().
LoginCall(t) ==
    /\ pc[t] = "idle"
    /\ pc' = [pc EXCEPT ![t] = "lock"]
    /\ UNCHANGED <<authMutex, clientVars, cmd, ret, invokeVars>>

\* Mutant: Lock() that returns without waiting for the mutex to be free.
LoginLockNoWait(t) ==
    /\ pc[t] = "lock"
    /\ authMutex' = TRUE
    /\ pc' = [pc EXCEPT ![t] = "command"]
    /\ UNCHANGED <<clientVars, cmd, ret, invokeVars>>

\* codex.authMutex.Lock() returns
LoginLock(t) ==
    /\ pc[t] = "lock"
    /\ authMutex = FALSE
    /\ authMutex' = TRUE
    /\ pc' = [pc EXCEPT ![t] = "command"]
    /\ UNCHANGED <<clientVars, cmd, ret, invokeVars>>

\* cmd, err := codex.command(ctx, "login", "--api-key", apiKey)
LoginCommand(t) ==
    /\ pc[t] = "command"
    /\ LET c == command(logWriter, logLevel, <<"login", "--api-key", ApiKey>>)
       IN IF c.err # Nil
          THEN /\ ret' = [ret EXCEPT ![t].err = c.err]
               /\ pc' = [pc EXCEPT ![t] = "unlock"]
               /\ UNCHANGED cmd
          ELSE /\ cmd' = [cmd EXCEPT ![t] = c.cmd]
               /\ pc' = [pc EXCEPT ![t] = "run"]
               /\ UNCHANGED ret
    /\ UNCHANGED <<authMutex, clientVars, invokeVars>>

\* cmd.Run(): the process starts (or fails to start)
LoginRunStart(t) ==
    /\ pc[t] = "run"
    /\ \/ /\ cmd' = [cmd EXCEPT ![t] = Ptr([Deref(cmd[t]) EXCEPT !.started = TRUE])]
          /\ pc' = [pc EXCEPT ![t] = "wait"]
          /\ UNCHANGED ret
       \/ /\ ret' = [ret EXCEPT ![t].err = Ptr("exec: executable file not found")]
          /\ pc' = [pc EXCEPT ![t] = "unlock"]
          /\ UNCHANGED cmd
    /\ UNCHANGED <<authMutex, clientVars, invokeVars>>

\* cmd.Run(): the process exits, successfully or not (or is killed on cancel)
LoginRunWait(t) ==
    /\ pc[t] = "wait"
    /\ \E ok \in BOOLEAN :
         ret' = [ret EXCEPT ![t].err = IF ok THEN Nil ELSE Ptr("exit status 1")]
    /\ pc' = [pc EXCEPT ![t] = "unlock"]
    /\ UNCHANGED <<authMutex, clientVars, cmd, invokeVars>>

\* Mutant: Unlock() called at the end of the success path only, not deferred.
LoginUnlockOnSuccess(t) ==
    /\ pc[t] = "unlock"
    /\ authMutex' = IF ret[t].err = Nil THEN FALSE ELSE authMutex
    /\ pc' = [pc EXCEPT ![t] = "done"]
    /\ UNCHANGED <<clientVars, cmd, ret, invokeVars>>

\* defer codex.authMutex.Unlock(), then Login returns
LoginUnlock(t) ==
    /\ pc[t] = "unlock"
    /\ authMutex' = FALSE
    /\ pc' = [pc EXCEPT ![t] = "done"]
    /\ UNCHANGED <<clientVars, cmd, ret, invokeVars>>

\* ------------------------------------------------------- Invoke actions
\* Mutant: Invoke taking the authentication lock on entry.
InvokeCallLocked(t, lists) ==
    /\ pc[t] = "idle"
    /\ authMutex = FALSE
    /\ authMutex' = TRUE
    /\ \E options \in lists :
         in' = [in EXCEPT ![t] = [prompt |-> Prompt, options |-> options]]
    /\ idx' = [idx EXCEPT ![t] = 1]
    /\ opts' = [opts EXCEPT ![t] = invokeOptions]
    /\ pc' = [pc EXCEPT ![t] = "options"]
    /\ UNCHANGED <<clientVars, cmd, ret, session, res>>

\* A goroutine calls codex.Invoke(ctx, prompt, options...): opts := invokeOptions{}
InvokeCall(t, lists) ==
    /\ pc[t] = "idle"
    /\ \E options \in lists :
         in' = [in EXCEPT ![t] = [prompt |-> Prompt, options |-> options]]
    /\ idx' = [idx EXCEPT ![t] = 1]
    /\ opts' = [opts EXCEPT ![t] = invokeOptions]
    /\ pc' = [pc EXCEPT ![t] = "options"]
    /\ UNCHANGED <<authMutex, clientVars, cmd, ret, session, res>>

\* One iteration of: for _, opt := range options { if err := opt(&opts) ... }
\* The option works on opts through the pointer, whether or not it fails.
InvokeOption(t) ==
    /\ pc[t] = "options"
    /\ idx[t] <= Len(in[t].options)
    /\ LET r == ApplyOption(in[t].options[idx[t]], opts[t])
       IN /\ opts' = [opts EXCEPT ![t] = r.opts]
          /\ IF r.err # Nil
             THEN /\ ret' = [ret EXCEPT ![t].err = r.err]
                  /\ pc' = [pc EXCEPT ![t] = "done"]
                  /\ UNCHANGED idx
             ELSE /\ idx' = [idx EXCEPT ![t] = idx[t] + 1]
                  /\ UNCHANGED <<ret, pc>>
    /\ UNCHANGED <<authMutex, clientVars, cmd, in, session, res>>

\* cmd, err := codex.command(ctx, "mcp"); cmd.Dir = *opts.Cwd
InvokeCommand(t) ==
    /\ pc[t] = "options"
    /\ idx[t] > Len(in[t].options)
    /\ LET c == command(logWriter, logLevel, <<"mcp">>)
       IN IF c.err # Nil
          THEN /\ ret' = [ret EXCEPT ![t].err = c.err]
               /\ pc' = [pc EXCEPT ![t] = "done"]
               /\ UNCHANGED cmd
          ELSE /\ cmd' = [cmd EXCEPT ![t] =
                            IF opts[t].Cwd # Nil
                            THEN Ptr([Deref(c.cmd) EXCEPT !.Dir = Deref(opts[t].Cwd)])
                            ELSE c.cmd]
               /\ pc' = [pc EXCEPT ![t] = "connect"]
               /\ UNCHANGED ret
    /\ UNCHANGED <<authMutex, clientVars, invokeVars>>

\* session, err := client.Connect(ctx, &mcp.CommandTransport{Command: cmd}, nil)
\* The transport starts cmd; Connect fails when the process cannot start or
\* the handshake with it fails.
InvokeConnect(t) ==
    /\ pc[t] = "connect"
    /\ \/ /\ cmd' = [cmd EXCEPT ![t] = Ptr([Deref(cmd[t]) EXCEPT !.started = TRUE])]
          /\ session' = [session EXCEPT ![t].state = "open"]
          /\ pc' = [pc EXCEPT ![t] = "call"]
          /\ UNCHANGED ret
       \/ /\ ret' = [ret EXCEPT ![t].err = Ptr("exec: executable file not found")]
          /\ pc' = [pc EXCEPT ![t] = "done"]
          /\ UNCHANGED <<cmd, session>>
       \/ /\ cmd' = [cmd EXCEPT ![t] = Ptr([Deref(cmd[t]) EXCEPT !.started = TRUE])]
          /\ ret' = [ret EXCEPT ![t].err = Ptr("calling initialize: EOF")]
          /\ pc' = [pc EXCEPT ![t] = "done"]
          /\ UNCHANGED session
    /\ UNCHANGED <<authMutex, clientVars, in, idx, opts, res>>

\* res, err := session.CallTool(ctx, params) and the statements up to the
\* return (or panic); the deferred session.Close() is still to run.
InvokeCallTool(t, responses) ==
    /\ pc[t] = "call"
    /\ session' = [session EXCEPT ![t].calls =
                     Append(@, [Name |-> "codex",
                                Arguments |-> Arguments(in[t].prompt, opts[t])])]
    /\ \/ /\ ret' = [ret EXCEPT ![t].err = Ptr("context canceled")]
          /\ UNCHANGED res
       \/ \E r \in responses :
            /\ res' = [res EXCEPT ![t] = Ptr(r)]
            /\ ret' = [ret EXCEPT ![t] = Result(r)]
    /\ pc' = [pc EXCEPT ![t] = "close"]
    /\ UNCHANGED <<authMutex, clientVars, cmd, in, idx, opts>>

\* Mutant: session.Close() called before the final return only, not deferred.
InvokeCloseOnSuccess(t) ==
    /\ pc[t] = "close"
    /\ session' = IF ret[t].err = Nil /\ ret[t].panic = ""
                  THEN [session EXCEPT ![t].state = "closed", ![t].closes = @ + 1]
                  ELSE session
    /\ pc' = [pc EXCEPT ![t] = "done"]
    /\ UNCHANGED <<authMutex, clientVars, cmd, ret, in, idx, opts, res>>

\* defer session.Close(), then Invoke returns (or the panic propagates)
InvokeClose(t) ==
    /\ pc[t] = "close"
    /\ session' = [session EXCEPT ![t].state = "closed", ![t].closes = @ + 1]
    /\ pc' = [pc EXCEPT ![t] = "done"]
    /\ UNCHANGED <<authMutex, clientVars, cmd, ret, in, idx, opts, res>>

\* ------------------------------------------------------- specifications
LoginNext(t) ==
    \/ LoginCall(t)
    \/ LoginLock(t)
    \/ LoginCommand(t)
    \/ LoginRunStart(t)
    \/ LoginRunWait(t)
    \/ LoginUnlock(t)

InvokeNext(t, lists, responses) ==
    \/ InvokeCall(t, lists)
    \/ InvokeOption(t)
    \/ InvokeCommand(t)
    \/ InvokeConnect(t)
    \/ InvokeCallTool(t, responses)
    \/ InvokeClose(t)

\* Goroutines calling Login concurrently on one client.
NextLogin ==
    \/ SetLogger(FewLogLevels)
    \/ \E t \in LoginThreads : LoginNext(t)

SpecLogin == Init /\ [][NextLogin]_vars

\* One goroutine in Login racing the goroutines calling Invoke.
InvokeRace(t) == InvokeNext(t, RaceOptionLists, RaceResponses)

NextRace ==
    \/ SetLogger({"info"})
    \/ LoginNext(FirstLogin)
    \/ \E t \in InvokeThreads : InvokeRace(t)

SpecRace == Init /\ [][NextRace]_vars

\* One Login and one Invoke caller under every logger configuration.
NextLogger ==
    \/ SetLogger(LogLevels)
    \/ LoginNext(FirstLogin)
    \/ InvokeNext(FirstInvoke, FewOptionLists, FewResponses)

SpecLogger == Init /\ [][NextLogger]_vars

\* One Invoke caller with every option list up to MaxOpts.
NextOptions ==
    \/ SetLogger(FewLogLevels)
    \/ InvokeNext(FirstInvoke, OptionLists, FewResponses)

SpecOptions == Init /\ [][NextOptions]_vars

\* One Invoke caller with every tool-call response up to MaxContent entries.
NextResponses ==
    \/ SetLogger(FewLogLevels)
    \/ InvokeNext(FirstInvoke, FewOptionLists, Responses)

SpecResponses == Init /\ [][NextResponses]_vars

\* ------------------------------------------------------- claims
\* The pcs at which a Login call is inside its critical section: from the
\* return of Lock() to the deferred Unlock().
LoginCritical == {"command", "run", "wait", "unlock"}
InLogin == {t \in LoginThreads : pc[t] \in LoginCritical}

\* C1: at most one Login call is ever between acquiring the lock (building
\* and running its login subprocess) and returning; the critical sections of
\* two Login calls never overlap.
C1_LoginMutualExclusion == Cardinality(InLogin) <= 1

\* One Login has its subprocess running while another is blocked in Lock().
C1_Witness ==
    \E t, u \in LoginThreads :
        /\ pc[t] = "wait"
        /\ Deref(cmd[t]).started
        /\ pc[u] = "lock"

\* C2: every Login that has returned has released the lock, whatever the exit
\* path: the lock is held only while some Login is inside its critical
\* section, so when none is (for instance after a Login returned an error) the
\* lock is free and a Login waiting in Lock() can acquire it.
C2_LockReleasedOnReturn ==
    /\ authMutex => InLogin # {}
    /\ \A t \in LoginThreads :
         (pc[t] = "lock" /\ InLogin = {}) => ENABLED LoginLock(t)

\* A Login returned the failure of its subprocess and a later Login then got
\* the lock and started its own subprocess.
C2_Witness ==
    \E t, u \in LoginThreads :
        /\ pc[t] = "done"
        /\ ret[t].err = Ptr("exit status 1")
        /\ pc[u] = "wait"
        /\ authMutex

\* The pcs at which an Invoke call is running and not blocked by anything but
\* its own subprocess.
InvokeRunning == {"options", "connect", "call", "close"}

\* C9: Invoke never acquires or waits on the authentication lock: no step of
\* an Invoke call changes authMutex, and an Invoke call that has started can
\* always take its next step, whether or not a Login holds the lock.
C9_InvokeIgnoresLock ==
    /\ [][authMutex' # authMutex =>
            \A t \in InvokeThreads : pc'[t] = pc[t]]_vars
    /\ [](\A t \in InvokeThreads :
            pc[t] \in InvokeRunning => ENABLED InvokeRace(t))

\* A Login holds the lock with its subprocess running while two Invoke calls
\* both have their session open, one of them with its tool call answered.
C9_Witness ==
    /\ authMutex
    /\ pc[FirstLogin] = "wait"
    /\ \E a, b \in InvokeThreads :
         /\ a # b
         /\ session[a].state = "open" /\ pc[a] = "call"
         /\ session[b].state = "open" /\ pc[b] = "close"

\* C3: in every Invoke call whose Connect succeeded the session is closed
\* exactly once before Invoke returns, on every exit path after the connect
\* (tool-call error, error-flagged response, successful response, panic on an
\* empty content list), and a tool call is only ever issued on an open session.
C3_SessionClosedOnce ==
    /\ [](\A t \in InvokeThreads :
            /\ session[t].closes <= 1
            /\ session[t].state = "closed" <=> session[t].closes = 1
            /\ (pc[t] = "done" /\ session[t].state # "none")
                   => (session[t].state = "closed" /\ session[t].closes = 1)
            /\ (pc[t] = "done" /\ (session[t].calls # <<>> \/ res[t] # Nil))
                   => session[t].closes = 1)
    /\ [][\A t \in InvokeThreads :
            session'[t].calls # session[t].calls =>
                (session[t].state = "open" /\ session'[t].state = "open")]_vars

\* Invoke panicked on an empty content list and its session was closed once.
C3_Witness ==
    \E t \in InvokeThreads :
        /\ pc[t] = "done"
        /\ res[t] # Nil
        /\ Deref(res[t]).Content = <<>>
        /\ ret[t].panic # ""
        /\ session[t].state = "closed"
        /\ session[t].closes = 1

IsInvalidOption(opt) ==
    \/ /\ opt.fn = "WithApprovalPolicy"
       /\ opt.str \notin {"untrusted", "on-failure", "never"}
    \/ /\ opt.fn = "WithSandbox"
       /\ opt.str \notin {"read-only", "workspace-write", "danger-full-access"}

InvalidAt(options) == {i \in 1..Len(options) : IsInvalidOption(options[i])}

FirstInvalid(options) ==
    CHOOSE i \in InvalidAt(options) : \A j \in InvalidAt(options) : i <= j

\* The error an invalid option is documented to return.
ExpectedError(opt) ==
    IF opt.fn = "WithApprovalPolicy"
    THEN <<"invalid approval-policy: " \o opt.str>>
    ELSE <<"invalid sandbox: " \o opt.str>>

\* Index of the last option of constructor fn among the first n options (0: none).
LastOf(options, n, fn) ==
    LET S == {i \in 1..n : options[i].fn = fn}
    IN IF S = {} THEN 0 ELSE CHOOSE i \in S : \A j \in S : j <= i

\* The options structure after exactly the first n options were applied once,
\* in order.
ExpectedOpts(options, n) ==
    LET Str(fn) == IF LastOf(options, n, fn) = 0 THEN <<>>
                   ELSE <<options[LastOf(options, n, fn)].str>>
    IN [ApprovalPolicy |-> Str("WithApprovalPolicy"),
        BaseInstructions |-> Str("WithBaseInstructions"),
        Config |-> IF LastOf(options, n, "WithConfig") = 0 THEN <<>>
                   ELSE options[LastOf(options, n, "WithConfig")].cfg,
        Cwd |-> Str("WithCwd"),
        IncludePlanTool |-> IF LastOf(options, n, "WithIncludePlanTool") = 0 THEN <<>>
                            ELSE <<options[LastOf(options, n, "WithIncludePlanTool")].flag>>,
        Model |-> Str("WithModel"),
        Profile |-> Str("WithProfile"),
        Sandbox |-> Str("WithSandbox")]

NothingSpawned(t) ==
    /\ cmd[t] = <<>>
    /\ session[t] = [state |-> "none", closes |-> 0, calls |-> <<>>]
    /\ res[t] = <<>>

\* C4 as stated: every invalid approval-policy or sandbox option returns an
\* error containing its value, and an Invoke given that option at any position
\* returns that option's error without building a process invocation, opening
\* a session or issuing a tool call.
C4_Original ==
    \A t \in InvokeThreads :
        pc[t] = "done" =>
            \A i \in InvalidAt(in[t].options) :
                LET opt == in[t].options[i]
                    e == ApplyOption(opt, invokeOptions).err
                IN /\ e # <<>>
                   /\ Contains(e[1], opt.str)
                   /\ ret[t].err = e
                   /\ NothingSpawned(t)

\* C4 (amended): every invalid approval-policy or sandbox option returns an
\* error containing its value, and an Invoke given such an option at any
\* position returns the error of the first invalid option of its list (that
\* option's own error when no invalid option precedes it) without building a
\* process invocation, opening a session or issuing a tool call.
C4_FirstInvalidOptionRejected ==
    \A t \in InvokeThreads :
        LET options == in[t].options
        IN InvalidAt(options) # {} =>
            /\ \A i \in InvalidAt(options) :
                 LET e == ApplyOption(options[i], invokeOptions).err
                 IN /\ e = ExpectedError(options[i])
                    /\ Contains(e[1], options[i].str)
            /\ pc[t] \in {"options", "done"}
            /\ NothingSpawned(t)
            /\ pc[t] = "done" =>
                 /\ ret[t].err = ExpectedError(options[FirstInvalid(options)])
                 /\ ret[t].text = ""

\* Invoke was given two invalid options and returned the error of the first.
C4_Witness ==
    \E t \in InvokeThreads :
        /\ pc[t] = "done"
        /\ Len(in[t].options) = 2
        /\ InvalidAt(in[t].options) = {1, 2}
        /\ in[t].options[1].fn = "WithSandbox"
        /\ in[t].options[2].fn = "WithApprovalPolicy"
        /\ ret[t].err = <<"invalid sandbox: none">>
        /\ cmd[t] = <<>>

\* C7: the arguments of every tool call are exactly prompt plus the hyphenated
\* key of each field supplied by an option (config only with a non-nil map),
\* each with the value supplied last; fields not supplied are absent, cwd is
\* never a key and sets the working directory of the subprocess instead.
C7_ArgumentsMatchOptions ==
    \A t \in InvokeThreads :
        session[t].calls # <<>> =>
            LET o == in[t].options
                n == Len(o)
                a == session[t].calls[1].Arguments
                Last(fn) == LastOf(o, n, fn)
                Key(fn, k) == IF Last(fn) # 0 THEN {k} ELSE {}
            IN /\ Len(session[t].calls) = 1
               /\ session[t].calls[1].Name = "codex"
               /\ DOMAIN a =
                    {"prompt"}
                    \cup Key("WithApprovalPolicy", "approval-policy")
                    \cup Key("WithBaseInstructions", "base-instructions")
                    \cup (IF Last("WithConfig") # 0 /\ o[Last("WithConfig")].cfg # <<>>
                          THEN {"config"} ELSE {})
                    \cup Key("WithIncludePlanTool", "include-plan-tool")
                    \cup Key("WithModel", "model")
                    \cup Key("WithProfile", "profile")
                    \cup Key("WithSandbox", "sandbox")
               /\ a["prompt"] = "hello"
               /\ a["prompt"] = in[t].prompt
               /\ Last("WithApprovalPolicy") # 0 =>
                    a["approval-policy"] = o[Last("WithApprovalPolicy")].str
               /\ Last("WithBaseInstructions") # 0 =>
                    a["base-instructions"] = o[Last("WithBaseInstructions")].str
               /\ "config" \in DOMAIN a =>
                    a["config"] = o[Last("WithConfig")].cfg[1]
               /\ Last("WithIncludePlanTool") # 0 =>
                    a["include-plan-tool"] = o[Last("WithIncludePlanTool")].flag
               /\ Last("WithModel") # 0 => a["model"] = o[Last("WithModel")].str
               /\ Last("WithProfile") # 0 => a["profile"] = o[Last("WithProfile")].str
               /\ Last("WithSandbox") # 0 => a["sandbox"] = o[Last("WithSandbox")].str
               /\ "cwd" \notin DOMAIN a
               /\ cmd[t][1].Dir = IF Last("WithCwd") # 0 THEN o[Last("WithCwd")].str ELSE ""

\* A tool call was issued for a repeated WithApprovalPolicy: the second value
\* was sent under approval-policy, next to prompt alone.
C7_Witness ==
    \E t \in InvokeThreads :
        /\ session[t].calls # <<>>
        /\ Len(in[t].options) = 2
        /\ in[t].options[1].fn = "WithApprovalPolicy"
        /\ in[t].options[2].fn = "WithApprovalPolicy"
        /\ in[t].options[1].str = "untrusted"
        /\ in[t].options[2].str = "never"
        /\ DOMAIN session[t].calls[1].Arguments = {"prompt", "approval-policy"}
        /\ session[t].calls[1].Arguments["approval-policy"] = "never"

\* C10: Invoke applies its options in list order to one fresh structure: the
\* structure always holds exactly the options before the loop position, each
\* applied once; a failing option leaves it as it was, stops the loop at its
\* position and its error is returned, so it is the first failing one; when
\* none fails the loop ends after the last option with all of them applied.
C10_OptionsAppliedInOrder ==
    \A t \in InvokeThreads :
        pc[t] # "idle" =>
            LET o == in[t].options
            IN /\ idx[t] \in 1..(Len(o) + 1)
               /\ opts[t] = ExpectedOpts(o, idx[t] - 1)
               /\ \A i \in InvalidAt(o) : idx[t] <= i
               /\ (pc[t] = "done" /\ InvalidAt(o) # {}) =>
                    /\ idx[t] = FirstInvalid(o)
                    /\ ret[t].err = ExpectedError(o[idx[t]])
               /\ (pc[t] # "options" /\ InvalidAt(o) = {}) =>
                    /\ idx[t] = Len(o) + 1
                    /\ opts[t] = ExpectedOpts(o, Len(o))
               /\ pc[t] \in {"connect", "call", "close"} => InvalidAt(o) = {}

\* Invoke returned the error of a failing second option; the structure holds
\* the first option only.
C10_Witness ==
    \E t \in InvokeThreads :
        /\ pc[t] = "done"
        /\ Len(in[t].options) = 2
        /\ in[t].options[1].fn = "WithModel"
        /\ in[t].options[2].fn = "WithApprovalPolicy"
        /\ in[t].options[2].str = "always"
        /\ idx[t] = 2
        /\ opts[t] = [invokeOptions EXCEPT !.Model = <<"o3">>]
        /\ ret[t].err = <<"invalid approval-policy: always">>

\* ---- the logger configuration, as the claims describe it
\* Thread t is about to call codex.command().
AtCommand(t) ==
    IF t \in LoginThreads
    THEN pc[t] = "command"
    ELSE pc[t] = "options" /\ idx[t] > Len(in[t].options)

\* Thread t has just returned from codex.command().
RanCommand(t) == AtCommand(t) /\ pc'[t] # pc[t]

LevelIsValid == logLevel \in {"error", "warn", "info", "debug", "trace", "off"}

RejectedByCommand(t) ==
    /\ ret'[t] = [text |-> "", err |-> <<"invalid log level">>, panic |-> ""]
    /\ cmd'[t] = <<>>
    /\ pc'[t] = IF t \in LoginThreads THEN "unlock" ELSE "done"

C6_Original ==
    /\ [][\A t \in Threads :
            (RanCommand(t) /\ ~LevelIsValid) =>
                (ret'[t].err # <<>> /\ cmd'[t] = <<>>)]_vars
    /\ [](\A t \in InvokeThreads :
            (pc[t] = "done" /\ InvalidAt(in[t].options) # {}) =>
                (ret[t].err # <<>> /\ cmd[t] = <<>>))

\* C6 (amended): an invalid approval-policy or sandbox option, and an invalid
\* log level while a log sink is configured, is never accepted: the Login or
\* Invoke is rejected with an error before any process is spawned.  With no
\* log sink configured the log level is not validated and the call proceeds
\* to build its process invocation.
C6_InvalidEnumRejected ==
    /\ [][\A t \in Threads :
            RanCommand(t) =>
                /\ (logWriter # <<>> /\ ~LevelIsValid) =>
                      (ret'[t].err # <<>> /\ cmd'[t] = <<>>)
                /\ logWriter = <<>> =>
                      (ret'[t].err = <<>> /\ cmd'[t] # <<>> /\ cmd'[t][1].Env = <<>>)]_vars
    /\ [](\A t \in InvokeThreads :
            InvalidAt(in[t].options) # {} =>
                /\ cmd[t] = <<>>
                /\ pc[t] = "done" => ret[t].err # <<>>)
    /\ [](\A t \in Threads :
            (cmd[t] # <<>> /\ cmd[t][1].started) => pc[t] \notin {"idle", "lock", "options"})

\* With no log sink and the invalid level "verbose" set, both a Login and an
\* Invoke have started their processes.
C6_Witness ==
    /\ logWriter = <<>>
    /\ logLevel = "verbose"
    /\ cmd[FirstLogin] # <<>>
    /\ cmd[FirstLogin][1].started
    /\ cmd[FirstLogin][1].Env = <<>>
    /\ cmd[FirstInvoke] # <<>>
    /\ cmd[FirstInvoke][1].started

====
